---- MODULE Spec2Model ----
(***************************************************************************)
(* The high-delivery stock pipeline of Delivery.py, Delivery_new.py and    *)
(* Delivery_good_mail.py: fetch the Moneycontrol page, pick a table,       *)
(* resolve the company / price / delivery columns, coerce the cells to     *)
(* numbers, select the high-delivery rows.                                 *)
(*                                                                         *)
(* Text is modelled character by character: a string is a sequence of      *)
(* one-character strings, so that str.lower, str.strip, str.replace, the   *)
(* substring test `k in s` and pd.to_numeric are computed, not assumed.    *)
(* Numbers are integers.                                                   *)
(***************************************************************************)
EXTENDS Integers, Sequences, FiniteSets, TLC

VARIABLES
    env,                  \* the environment variables MAX_STOCKS and DELIVERY_THRESHOLD
    variant,              \* which script runs: "legacy" (Delivery.py), "new" (Delivery_new.py), "mail" (Delivery_good_mail.py)
    DELIVERY_THRESHOLD,   \* the delivery-percentage threshold of the run
    MAX_STOCKS,           \* the cap on the number of picks (mail only)
    pc,                   \* position of the run
    log,                  \* one entry per HTTP attempt made so far
    tables,               \* what pd.read_html returned in the successful attempt
    base,                 \* the table the run works on
    name_col, price_col, dely_col,   \* the resolved column names
    df,                   \* the cleaned frame
    picks,                \* the selected rows
    again,                \* select applied to its own output
    err,                  \* the exception that ended the run, "" while none
    DRY_RUN,              \* whether the report is only printed (mail only)
    analyzed,             \* how many selected rows the analysis loop has passed
    results,              \* the analysis list
    report,               \* the report composed: "" while none, "empty", "full"
    sent                  \* whether the e-mail was handed to SMTP

vars == <<env, variant, DELIVERY_THRESHOLD, MAX_STOCKS, pc, log, tables, base,
          name_col, price_col, dely_col, df, picks, again, err,
          DRY_RUN, analyzed, results, report, sent>>

\* the state of the analysis and report steps
reporting == <<DRY_RUN, analyzed, results, report, sent>>

-----------------------------------------------------------------------------
(* Bounds of the model.                                                    *)

MaxTables == 2      \* tables per document
MaxCols == 2        \* columns per enumerated table
MaxRows == 2        \* rows per enumerated raw table
MaxSelRows == 3     \* rows per enumerated numeric frame

-----------------------------------------------------------------------------
(* Strings.                                                                *)

UpperCase == <<"A","B","C","D","E","F","G","H","I","J","K","L","M",
               "N","O","P","Q","R","S","T","U","V","W","X","Y","Z">>
LowerCase == <<"a","b","c","d","e","f","g","h","i","j","k","l","m",
               "n","o","p","q","r","s","t","u","v","w","x","y","z">>
Digits == <<"0","1","2","3","4","5","6","7","8","9">>

lower_char(c) ==
    IF \E i \in 1..26 : UpperCase[i] = c
    THEN LowerCase[CHOOSE i \in 1..26 : UpperCase[i] = c]
    ELSE c

\* str.lower()
lower(s) == [i \in 1..Len(s) |-> lower_char(s[i])]

\* str.strip(): the string without its leading and trailing blanks
strip(s) ==
    LET keep == {i \in 1..Len(s) : s[i] # " "}
    IN  IF keep = {} THEN <<>>
        ELSE LET lo == CHOOSE i \in keep : \A j \in keep : i <= j
                 hi == CHOOSE i \in keep : \A j \in keep : j <= i
             IN  SubSeq(s, lo, hi)

\* the Python test `k in s` on strings
contains(k, s) ==
    \E i \in 0..(Len(s) - Len(k)) : SubSeq(s, i + 1, i + Len(k)) = k

\* str.replace(ch, "") for a one-character ch
remove_char(s, ch) == SelectSeq(s, LAMBDA c : c # ch)

IsDigit(c) == \E i \in 1..10 : Digits[i] = c
DigitValue(c) == (CHOOSE i \in 1..10 : Digits[i] = c) - 1

RECURSIVE DecimalValue(_)
DecimalValue(s) ==
    IF s = <<>> THEN 0
    ELSE 10 * DecimalValue(SubSeq(s, 1, Len(s) - 1)) + DigitValue(s[Len(s)])

\* A number as pandas holds it: t = "num" with its value n, t = "nan", or
\* t = "str" for a cell that was never coerced (its text in s).
Num(n) == [t |-> "num", n |-> n, s |-> <<>>]
NaN == [t |-> "nan", n |-> 0, s |-> <<>>]
Raw(s) == [t |-> "str", n |-> 0, s |-> s]

\* pd.to_numeric(errors="coerce") on one string: an optionally signed run
\* of digits is its value, anything else is NaN
to_numeric(s) ==
    LET body == IF s # <<>> /\ s[1] = "-" THEN Tail(s) ELSE s
    IN  IF body # <<>> /\ \A i \in 1..Len(body) : IsDigit(body[i])
        THEN Num(IF s[1] = "-" THEN 0 - DecimalValue(body) ELSE DecimalValue(body))
        ELSE NaN

\* the strings of the scripts
K_company == <<"c","o","m","p","a","n","y">>
K_name == <<"n","a","m","e">>
K_dely == <<"d","e","l","y">>
K_delivery == <<"d","e","l","i","v","e","r","y">>
K_last_price == <<"l","a","s","t"," ","p","r","i","c","e">>
K_ltp == <<"l","t","p">>
K_price == <<"p","r","i","c","e">>
K_close == <<"c","l","o","s","e">>
K_access_denied == <<"a","c","c","e","s","s"," ","d","e","n","i","e","d">>
K_captcha == <<"c","a","p","t","c","h","a">>
S_CompanyName == <<"C","o","m","p","a","n","y"," ","N","a","m","e">>
S_LastPrice == <<"L","a","s","t"," ","P","r","i","c","e">>
S_Dely == <<"D","e","l","y"," ","%">>

-----------------------------------------------------------------------------
(* What the site can serve.                                                *)

\* headers as the page writes them
H_Name == <<"N","a","m","e">>
H_DelyPadded == <<" ","D","e","l","y"," ","%"," ">>
H_DeliveryPercent == <<"D","e","l","i","v","e","r","y"," ","P","e","r","c","e","n","t">>
Headers == {S_CompanyName, H_DelyPadded, S_LastPrice}

\* cell texts
C_100 == <<"1","0","0">>
C_1200 == <<"1",",","2","0","0">>
C_0 == <<"0">>
C_neg3 == <<"-","3">>
C_na == <<"n","/","a">>
C_90pct == <<"9","0","%">>
C_85pad == <<" ","8","5"," ","%"," ">>
C_150pct == <<"1","5","0","%">>
C_neg5 == <<"-","5">>
C_85 == <<"8","5">>
C_70 == <<"7","0">>
C_86 == <<"8","6">>
C_95 == <<"9","5">>
PriceCells == {C_100, C_1200, C_0, C_neg3, C_na}
DelyCells == {C_90pct, C_85pad, C_150pct, C_neg5, C_na}
RowNames == <<<<"A">>, <<"B">>, <<"C">>, <<"D">>, <<"E">>, <<"F">>, <<"G">>, <<"H">>>>

\* a row of the page: the company, its price text and its delivery text
PageRow(i, p, d) == [name |-> RowNames[i], price |-> p, dely |-> d]

\* the cell the page writes under header h for row r
CellUnder(h, r) ==
    IF h \in {S_CompanyName, H_Name} THEN r.name
    ELSE IF h \in {H_DelyPadded, H_DeliveryPercent, S_Dely} THEN r.dely
    ELSE r.price

\* a table as pd.read_html returns it: its column names and its rows, each
\* row one cell per column
MakeTable(cols, rows) ==
    [cols |-> cols,
     rows |-> [i \in 1..Len(rows) |-> [c \in 1..Len(cols) |-> CellUnder(cols[c], rows[i])]]]

RECURSIVE SeqsUpTo(_, _)
\* the sequences over S of length 0..n
SeqsUpTo(S, n) ==
    IF n = 0 THEN {<<>>}
    ELSE LET shorter == SeqsUpTo(S, n - 1)
         IN  shorter \cup {Append(s, x) : s \in {t \in shorter : Len(t) = n - 1}, x \in S}

Distinct(s) == \A i, j \in 1..Len(s) : i # j => s[i] # s[j]

\* read_html names the columns of one table apart
ColumnLists == {s \in SeqsUpTo(Headers, MaxCols) : s # <<>> /\ Distinct(s)}

\* page texts: the part of the markup the scripts look at, and the count
\* of the remaining characters
T_delivery == <<"N","i","f","t","y"," ","D","e","l","i","v","e","r","y">>
T_denied == <<"A","c","c","e","s","s"," ","D","e","n","i","e","d">>
T_captcha == <<"C","A","P","T","C","H","A">>
Body(text, pad, tabs) == [text |-> text, pad |-> pad, tables |-> tabs]

OneRow == <<PageRow(1, C_100, C_90pct)>>
StdCols == <<S_CompanyName, S_LastPrice, H_DelyPadded>>
StdTable == MakeTable(StdCols, OneRow)

\* outcomes of one requests.get + raise_for_status
Timeout == [kind |-> "timeout", body |-> Body(<<>>, 0, <<>>)]
HttpError == [kind |-> "http", body |-> Body(<<>>, 0, <<>>)]
Ok(b) == [kind |-> "ok", body |-> b]

\* documents for the fetch stage: blocked, short and good pages, with and
\* without tables
FetchOutcomes ==
    {Timeout, HttpError} \cup
    {Ok(Body(t, p, tabs)) : t \in {T_delivery, T_denied, T_captcha},
                            p \in {0, 6000},
                            tabs \in {<<>>, <<StdTable>>}}

-----------------------------------------------------------------------------
(* Configuration.                                                          *)

FETCH_ATTEMPTS == 3
MIN_PAGE_LEN == 5000
LEGACY_THRESHOLD == 85
DEFAULT_DELIVERY_THRESHOLD == 85
DEFAULT_MAX_STOCKS == 6

\* an environment variable: set to an integer, or unset
EnvSet(n) == [set |-> TRUE, val |-> n]
EnvUnset == [set |-> FALSE, val |-> 0]

\* int(os.getenv(name, default))
getenv_int(e, default) == IF e.set THEN e.val ELSE default

\* os.getenv(name, default)
getenv(e, default) == IF e.set THEN e.val ELSE default

\* the texts of DRY_RUN
S_true == <<"t","r","u","e">>
S_TRUE == <<"T","R","U","E">>
S_false == <<"f","a","l","s","e">>

\* os.getenv("DRY_RUN", "true").lower() == "true"
dry_run(e) == lower(getenv(e, S_true)) = S_true

Variants == {"legacy", "new", "mail"}

NoTable == [cols |-> <<>>, rows |-> <<>>]
None == <<>>

-----------------------------------------------------------------------------
(* Fetch.                                                                  *)

\* pd.read_html: the tables of the page (none: it raises ValueError)
read_html(body) == body.tables

\* len(response.text)
page_len(body) == Len(body.text) + body.pad

\* the blocking indicators Delivery.py and Delivery_new.py look for; what
\* they find is printed, and the script goes on
blocking_indicator(body) ==
    IF contains(K_access_denied, lower(body.text)) THEN "access denied"
    ELSE IF contains(K_captcha, lower(body.text)) THEN "captcha"
    ELSE IF page_len(body) < MIN_PAGE_LEN THEN "short"
    ELSE "none"

stripped(cols) == [i \in 1..Len(cols) |-> strip(cols[i])]

has_company(t) ==
    \E i \in 1..Len(t.cols) :
        /\ contains(K_company, lower(strip(t.cols[i])))
        /\ contains(K_name, lower(strip(t.cols[i])))

has_delivery(t) ==
    \E i \in 1..Len(t.cols) :
        \/ contains(K_dely, lower(strip(t.cols[i])))
        \/ contains(K_delivery, lower(strip(t.cols[i])))

\* `or` for `and` in the test
picks_table_either(t) == has_company(t) \/ has_delivery(t)

\* the test of the loop of _pick_table
picks_table(t) == has_company(t) /\ has_delivery(t)

\* the first table whatever its width
widest_is_first(tabs) == tabs[1]

\* max(tables, key=lambda x: x.shape[1]): the first table of the greatest width
widest(tabs) ==
    tabs[CHOOSE i \in 1..Len(tabs) :
            /\ \A j \in 1..Len(tabs) : Len(tabs[j].cols) <= Len(tabs[i].cols)
            /\ \A j \in 1..(i - 1) : Len(tabs[j].cols) < Len(tabs[i].cols)]

RECURSIVE pick_from(_, _)
pick_from(tabs, i) ==
    IF i > Len(tabs) THEN widest(tabs)
    ELSE IF picks_table(tabs[i])
         THEN [tabs[i] EXCEPT !.cols = stripped(tabs[i].cols)]
         ELSE pick_from(tabs, i + 1)

_pick_table(tabs) == pick_from(tabs, 1)

\* the loop running once too often
attempts_allowed_one_more(v) == IF v = "mail" THEN FETCH_ATTEMPTS + 1 ELSE 1

\* how many requests a run may issue
attempts_allowed(v) == IF v = "mail" THEN FETCH_ATTEMPTS ELSE 1

\* whether the script goes on to parse a 2xx response
parses_response(v, body) == TRUE

\* One pass of the fetch block: requests.get, raise_for_status, the checks
\* on the page, pd.read_html, the choice of the table.  Delivery_good_mail.py
\* sleeps and tries again on any exception, and raises RuntimeError after
\* the third; the other two scripts raise RuntimeError at once.
Attempt(O) ==
    /\ pc = "fetch"
    /\ Len(log) < attempts_allowed(variant)
    /\ \E o \in O :
        LET parsed == o.kind = "ok" /\ parses_response(variant, o.body)
            found == IF parsed THEN read_html(o.body) ELSE <<>>
            success == parsed /\ found # <<>>
            entry == [kind |-> o.kind,
                      body |-> o.body,
                      warning |-> IF o.kind = "ok" /\ variant # "mail"
                                  THEN blocking_indicator(o.body) ELSE "none",
                      parsed |-> parsed,
                      success |-> success]
        IN  /\ log' = Append(log, entry)
            /\ IF success
               THEN /\ tables' = found
                    /\ base' = IF variant = "mail" THEN _pick_table(found) ELSE found[1]
                    /\ pc' = "resolve"
                    /\ err' = err
               ELSE /\ UNCHANGED <<tables, base>>
                    /\ IF Len(log') >= attempts_allowed(variant)
                       THEN pc' = "fatal" /\ err' = "RuntimeError"
                       ELSE pc' = "fetch" /\ err' = err
    /\ UNCHANGED <<env, variant, DELIVERY_THRESHOLD, MAX_STOCKS, name_col, price_col,
                   dely_col, df, picks, again>>
    /\ UNCHANGED reporting

-----------------------------------------------------------------------------
(* Column resolution.                                                      *)

S_Unknown == <<"U","n","k","n","o","w","n">>

RECURSIVE find_from(_, _, _)
find_from(cols, candidates, i) ==
    IF i > Len(cols) THEN None
    ELSE IF \E k \in candidates : contains(k, lower(cols[i]))
         THEN cols[i]
         ELSE find_from(cols, candidates, i + 1)

\* find_col: the first column whose lower-cased name contains ANY of the
\* candidates, None when there is none
find_col(cols, candidates) == find_from(cols, candidates, 1)

\* Python's `a or b` on strings and None
or_else(a, b) == IF a # None THEN a ELSE b

has_col(cols, c) == \E i \in 1..Len(cols) : cols[i] = c
col_index(cols, c) == CHOOSE i \in 1..Len(cols) : cols[i] = c

\* what stops the resolution of Delivery_good_mail.py, "" when nothing does
resolve_error(cols) ==
    IF find_col(cols, {K_last_price, K_ltp, K_price, K_close}) = None /\ Len(cols) < 2
    THEN "IndexError"
    ELSE IF find_col(cols, {K_dely, K_delivery}) = None /\ ~has_col(cols, S_Dely)
         THEN "ValueError"
         ELSE ""

resolved_name(cols) == or_else(find_col(cols, {K_company, K_name}), cols[1])
resolved_price(cols) == or_else(find_col(cols, {K_last_price, K_ltp, K_price, K_close}), cols[2])
resolved_dely(cols) ==
    or_else(find_col(cols, {K_dely, K_delivery}), IF has_col(cols, S_Dely) THEN S_Dely ELSE None)

\* a row of the frame: the company, and the price and delivery values
FrameRow(name, price, dely) == [name |-> name, price |-> price, dely |-> dely]

\* base[[name_col, price_col, dely_col]], the cells still text
project(t, n, p, d) ==
    [i \in 1..Len(t.rows) |->
        FrameRow(t.rows[i][col_index(t.cols, n)],
                 Raw(t.rows[i][col_index(t.cols, p)]),
                 Raw(t.rows[i][col_index(t.cols, d)]))]

\* the rows as Delivery.py and Delivery_new.py read them: by the literal
\* names, with row.get's defaults for a missing name or price
project_literal(t) ==
    [i \in 1..Len(t.rows) |->
        FrameRow(IF has_col(t.cols, S_CompanyName)
                 THEN t.rows[i][col_index(t.cols, S_CompanyName)] ELSE S_Unknown,
                 IF has_col(t.cols, S_LastPrice)
                 THEN Raw(t.rows[i][col_index(t.cols, S_LastPrice)]) ELSE Num(0),
                 Raw(t.rows[i][col_index(t.cols, S_Dely)]))]

\* Delivery_good_mail.py, lines 101-117: strip the names, find the three
\* columns, keep them.  Delivery.py and Delivery_new.py: strip the names and
\* read the column "Dely %" (KeyError when there is none).
Resolve ==
    /\ pc = "resolve"
    /\ LET cols == stripped(base.cols)
           t == [base EXCEPT !.cols = cols]
           failure == IF variant = "mail" THEN resolve_error(cols)
                      ELSE IF has_col(cols, S_Dely) THEN "" ELSE "KeyError"
       IN  /\ base' = t
           /\ IF failure # ""
              THEN /\ pc' = "fatal"
                   /\ err' = failure
                   /\ UNCHANGED <<name_col, price_col, dely_col, df>>
              ELSE /\ pc' = "normalize"
                   /\ err' = err
                   /\ IF variant = "mail"
                      THEN /\ name_col' = resolved_name(cols)
                           /\ price_col' = resolved_price(cols)
                           /\ dely_col' = resolved_dely(cols)
                           /\ df' = project(t, name_col', price_col', dely_col')
                      ELSE /\ name_col' = IF has_col(cols, S_CompanyName) THEN S_CompanyName ELSE None
                           /\ price_col' = IF has_col(cols, S_LastPrice) THEN S_LastPrice ELSE None
                           /\ dely_col' = S_Dely
                           /\ df' = project_literal(t)
    /\ UNCHANGED <<env, variant, DELIVERY_THRESHOLD, MAX_STOCKS, log, tables, picks, again>>
    /\ UNCHANGED reporting

-----------------------------------------------------------------------------
(* Cleaning.                                                               *)

\* .astype(str).str.replace(",", "").str.strip(), then pd.to_numeric(coerce)
clean_price(v) == IF v.t = "str" THEN to_numeric(strip(remove_char(v.s, ","))) ELSE v

\* .astype(str).str.replace("%", "").str.strip(), then pd.to_numeric(coerce)
clean_dely(v) == IF v.t = "str" THEN to_numeric(strip(remove_char(v.s, "%"))) ELSE v

\* the columns the script coerces
cleaned(v, r) ==
    FrameRow(r.name,
             IF v = "mail" THEN clean_price(r.price) ELSE r.price,
             clean_dely(r.dely))

\* dropna on the delivery column alone
survives_dropna_dely_only(v, r) == v = "legacy" \/ r.dely.t # "nan"

\* dropna(subset=...): the row stays
survives_dropna(v, r) ==
    CASE v = "mail" -> r.price.t # "nan" /\ r.dely.t # "nan"
      [] v = "new" -> r.dely.t # "nan"
      [] OTHER -> TRUE

normalize(v, rows) ==
    SelectSeq([i \in 1..Len(rows) |-> cleaned(v, rows[i])],
              LAMBDA r : survives_dropna(v, r))

Normalize ==
    /\ pc = "normalize"
    /\ df' = normalize(variant, df)
    /\ pc' = "select"
    /\ UNCHANGED <<env, variant, DELIVERY_THRESHOLD, MAX_STOCKS, log, tables, base,
                   name_col, price_col, dely_col, picks, again, err>>
    /\ UNCHANGED reporting

-----------------------------------------------------------------------------
(* Selection.                                                              *)

\* the comparison of the filter: >= DELIVERY_THRESHOLD in
\* Delivery_good_mail.py, > 85 in the other two; NaN compares False
passes(v, thr, r) ==
    /\ r.dely.t = "num"
    /\ IF v = "mail" THEN r.dely.n >= thr ELSE r.dely.n > LEGACY_THRESHOLD

filtered(v, thr, rows) == SelectSeq(rows, LAMBDA r : passes(v, thr, r))

RECURSIVE DescendingOrders(_, _)
\* sort_values("Dely %", ascending=False) with the default kind, quicksort,
\* which is not stable: every arrangement of the rows at positions S that
\* is descending in the key is a possible result
DescendingOrders(rows, S) ==
    IF S = {} THEN {<<>>}
    ELSE LET top == {i \in S : \A j \in S : rows[j].dely.n <= rows[i].dely.n}
         IN  UNION {{<<rows[i]>> \o rest : rest \in DescendingOrders(rows, S \ {i})} : i \in top}

sort_values(rows) == DescendingOrders(rows, 1..Len(rows))

\* one row too many
head_one_more(rows, n) == SubSeq(rows, 1, IF n + 1 < Len(rows) THEN n + 1 ELSE Len(rows))

\* DataFrame.head(n): the first n rows, all but the last -n for a negative n
head(rows, n) ==
    IF n >= 0 THEN SubSeq(rows, 1, IF n < Len(rows) THEN n ELSE Len(rows))
    ELSE SubSeq(rows, 1, IF Len(rows) + n > 0 THEN Len(rows) + n ELSE 0)

\* the possible results of the selection
select_high_delivery(v, thr, cap, rows) ==
    IF v = "mail"
    THEN {head(sorted, cap) : sorted \in sort_values(filtered(v, thr, rows))}
    ELSE {filtered(v, thr, rows)}

Select ==
    /\ pc = "select"
    /\ picks' \in select_high_delivery(variant, DELIVERY_THRESHOLD, MAX_STOCKS, df)
    /\ pc' = "selected"
    /\ UNCHANGED <<env, variant, DELIVERY_THRESHOLD, MAX_STOCKS, log, tables, base,
                   name_col, price_col, dely_col, df, again, err>>
    /\ UNCHANGED reporting

\* select applied once more, to its own output
Reselect ==
    /\ pc = "selected"
    /\ again' \in select_high_delivery(variant, DELIVERY_THRESHOLD, MAX_STOCKS, picks)
    /\ pc' = "reselected"
    /\ UNCHANGED <<env, variant, DELIVERY_THRESHOLD, MAX_STOCKS, log, tables, base,
                   name_col, price_col, dely_col, df, picks, err>>
    /\ UNCHANGED reporting

-----------------------------------------------------------------------------
(* The scorer of Delivery_new.py.                                          *)
(*                                                                         *)
(* Prices and percentages are integers in the frame.  The scorer's numbers *)
(* are kept exactly, as integers in a unit of their own: prices and        *)
(* percentages in hundredths, the ATR in ten-thousandths, the probability  *)
(* in thousandths.                                                         *)

\* a / b rounded down, for either sign of b
Div(a, b) == IF b > 0 THEN a \div b ELSE (0 - a) \div (0 - b)

\* round(a / b): the nearest integer; for an exact half the binary float
\* decides, so both neighbours are possible
RoundDiv(a, b) ==
    LET q == Div(a, b)
        r == IF b > 0 THEN a - q * b ELSE (0 - a) - q * (0 - b)
        m == IF b > 0 THEN b ELSE 0 - b
    IN  IF 2 * r < m THEN {q}
        ELSE IF 2 * r > m THEN {q + 1}
        ELSE {q, q + 1}

Min(a, b) == IF a < b THEN a ELSE b
Max(a, b) == IF a > b THEN a ELSE b

\* the one character of the rupee sign
RupeeSign == "Rs"

\* the price of the row as the loop reads it: a text is parsed with
\* float() (ValueError: NaN here), a missing price is 0
current_price(v) ==
    IF v.t = "str" THEN to_numeric(strip(remove_char(remove_char(v.s, ","), RupeeSign)))
    ELSE IF v.t = "num" THEN v ELSE Num(0)

\* max(15, min(50, (delivery_pct - 70) * 2 + current_price * 0.02)), in
\* ten-thousandths
estimated_atr(d, cmp) == Max(150000, Min(500000, (d - 70) * 20000 + cmp * 200))

\* min(80, max(45, 50 + (delivery_pct - 75) * 2))
estimated_rsi(d) == Min(80, Max(45, 50 + (d - 75) * 2))

macd_signal(d) == IF d > 90 THEN "Bullish" ELSE IF d > 85 THEN "Neutral" ELSE "Bearish"

\* the sum without the caps: base_prob and the three factors as they come
prob_move_uncapped(cmp, atr, rsi, macd) ==
    60000 + Div(atr * 10, cmp) + (rsi - 50) * 300 + (IF macd = "Bullish" THEN 10000 ELSE 0)

\* prob_move, in thousandths: min(95, max(20, base_prob + atr_factor +
\* rsi_factor + macd_factor)) with atr_factor = min(15, (atr / cmp) * 100)
prob_move(cmp, atr, rsi, macd) ==
    LET atr_factor == Min(15000, Div(atr * 10, cmp))
        rsi_factor == (rsi - 50) * 300
        macd_factor == IF macd = "Bullish" THEN 10000 ELSE 0
    IN  Min(95000, Max(20000, 60000 + atr_factor + rsi_factor + macd_factor))

\* 2.5 or 2.0, in tenths
multiplier(rsi, macd) == IF macd = "Bullish" /\ rsi > 60 THEN 25 ELSE 20

\* the error entry of analyze_stock and the placeholder of the loop
NoNumbers(row, kind) ==
    [row |-> row, kind |-> kind, prob |-> 0, upside_target |-> 0, upside_pct |-> 0,
     sl_pct |-> 0, sl_price |-> 0]

\* analyze_stock for a numeric cmp: the possible results.  cmp = 0 raises
\* ZeroDivisionError, which the function turns into its error entry.  cmp
\* is a whole number, so rounding cmp + x is cmp + the rounding of x.
analyze_stock(row, cmp, atr, rsi, macd) ==
    IF cmp = 0 THEN {NoNumbers(row, "error")}
    ELSE UNION UNION UNION
         {{{{[row |-> row, kind |-> "scored",
              prob |-> prob_move(cmp, atr, rsi, macd),
              upside_target |-> target, upside_pct |-> up, sl_pct |-> sl, sl_price |-> slp]
             : slp \in {cmp * 100 + x : x \in RoundDiv(0 - cmp * 100 * sl, 10000)}}
            : sl \in RoundDiv(up, 2)}
           : up \in RoundDiv((target - cmp * 100) * 100, cmp)}
          : target \in {cmp * 100 + x : x \in RoundDiv(atr * multiplier(rsi, macd), 1000)}}

\* one pass of the body of the analysis loop of Delivery_new.py
analyze_row(row) ==
    LET price == current_price(row.price)
        d == row.dely.n
    IN  IF price.t = "nan" THEN {NoNumbers(row, "placeholder")}
        ELSE analyze_stock(row, price.n, estimated_atr(d, price.n), estimated_rsi(d),
                           macd_signal(d))

\* one pass of the loop of main of Delivery_good_mail.py: the answer of
\* the OpenAI call, or the placeholder when the call raised
analyze_via_openai(row) == {NoNumbers(row, "openai"), NoNumbers(row, "placeholder")}

\* the failing row leaves no entry
analyses_without_placeholder(v, row) ==
    {IF e.kind = "placeholder" THEN <<>> ELSE <<e>> :
        e \in (IF v = "mail" THEN analyze_via_openai(row) ELSE analyze_row(row))}

\* the entries one pass of the loop may append
analyses(v, row) ==
    {<<e>> : e \in (IF v = "mail" THEN analyze_via_openai(row) ELSE analyze_row(row))}

\* One pass of the analysis loop over the selected rows, in their order.
\* Delivery.py has no analysis.
AnalyzeRow ==
    /\ pc = "selected"
    /\ variant # "legacy"
    /\ analyzed < Len(picks)
    /\ \E e \in analyses(variant, picks[analyzed + 1]) : results' = results \o e
    /\ analyzed' = analyzed + 1
    /\ UNCHANGED <<env, variant, DELIVERY_THRESHOLD, MAX_STOCKS, pc, log, tables, base,
                   name_col, price_col, dely_col, df, picks, again, err,
                   DRY_RUN, report, sent>>

-----------------------------------------------------------------------------
(* The report.                                                             *)

\* a dry run with an empty selection sends all the same
sends_when_empty(v, dry, rows) == v # "mail" \/ ~dry \/ rows = <<>>

\* whether the run hands the report to SMTP: Delivery_good_mail.py does
\* unless DRY_RUN, the other two scripts always do
sends(v, dry, rows) == v # "mail" \/ ~dry

\* nothing composed for an empty selection
compose_nothing_when_empty(rows) == IF rows = <<>> THEN "" ELSE "full"

\* the report: the "no high-delivery stocks" page, or the tables
compose(rows) == IF rows = <<>> THEN "empty" ELSE "full"

\* The report step, once the analysis loop is over: compose the report,
\* then print it or send it.  In Delivery_good_mail.py an SMTP error ends
\* the run; the other two scripts print it and complete.
Report ==
    /\ pc = "selected"
    /\ variant = "legacy" \/ analyzed = Len(picks)
    /\ report' = compose(picks)
    /\ sent' = sends(variant, DRY_RUN, picks)
    /\ \E smtp_ok \in BOOLEAN :
        IF sent' /\ ~smtp_ok /\ variant = "mail"
        THEN pc' = "fatal" /\ err' = "SMTPException"
        ELSE pc' = "done" /\ err' = err
    /\ UNCHANGED <<env, variant, DELIVERY_THRESHOLD, MAX_STOCKS, log, tables, base,
                   name_col, price_col, dely_col, df, picks, again, DRY_RUN, analyzed,
                   results>>

-----------------------------------------------------------------------------
(* Runs.                                                                   *)

\* The module-level configuration: Delivery_good_mail.py reads the
\* environment, the other two scripts have the threshold in the code.
InitWith(V, Caps, Thresholds, DryRuns) ==
    /\ variant \in V
    /\ env \in IF variant = "mail"
               THEN [MAX_STOCKS : Caps, DELIVERY_THRESHOLD : Thresholds, DRY_RUN : DryRuns]
               ELSE {[MAX_STOCKS |-> EnvUnset, DELIVERY_THRESHOLD |-> EnvUnset,
                      DRY_RUN |-> EnvUnset]}
    /\ DRY_RUN = (variant = "mail" /\ dry_run(env.DRY_RUN))
    /\ analyzed = 0
    /\ results = <<>>
    /\ report = ""
    /\ sent = FALSE
    /\ DELIVERY_THRESHOLD = IF variant = "mail"
                            THEN getenv_int(env.DELIVERY_THRESHOLD, DEFAULT_DELIVERY_THRESHOLD)
                            ELSE LEGACY_THRESHOLD
    /\ MAX_STOCKS = getenv_int(env.MAX_STOCKS, DEFAULT_MAX_STOCKS)
    /\ pc = "fetch"
    /\ log = <<>>
    /\ tables = <<>>
    /\ base = NoTable
    /\ name_col = None
    /\ price_col = None
    /\ dely_col = None
    /\ df = <<>>
    /\ picks = <<>>
    /\ again = <<>>
    /\ err = ""

\* Scenario C of the design: a partial match before a full match
ScenarioC ==
    <<MakeTable(<<H_Name, S_Dely>>, OneRow),
      MakeTable(<<S_CompanyName, S_LastPrice, H_DeliveryPercent>>, OneRow)>>

GoodPage(tabs) == Ok(Body(T_delivery, 6000, tabs))

\* a table with no price column
NoPriceTable == MakeTable(<<S_CompanyName, H_DelyPadded>>, OneRow)

\* three rows over the threshold, the second with no price
AnalysisRows == <<PageRow(1, C_100, C_95), PageRow(2, C_na, C_90pct), PageRow(3, C_1200, C_86)>>

\* one row under the threshold
QuietRows == <<PageRow(1, C_100, C_70)>>

\* the whole run, over the pages of the fetch stage and four more pages
Pages ==
    FetchOutcomes \cup {GoodPage(ScenarioC), GoodPage(<<NoPriceTable>>),
                        GoodPage(<<MakeTable(StdCols, AnalysisRows)>>),
                        GoodPage(<<MakeTable(StdCols, QuietRows)>>)}

\* the settings of DRY_RUN
DryRunSettings == {EnvUnset, EnvSet(S_true), EnvSet(S_TRUE), EnvSet(S_false)}

Init == InitWith(Variants, {EnvUnset}, {EnvUnset}, DryRunSettings)

Next ==
    \/ Attempt(Pages)
    \/ Resolve
    \/ Normalize
    \/ Select
    \/ AnalyzeRow
    \/ Report

Spec == Init /\ [][Next]_vars

\* a column "Name" before the column "Company Name"
NameBeforeCompany == <<MakeTable(<<H_Name, S_CompanyName, H_DelyPadded>>, OneRow)>>

\* the table resolver, over every list of tables within the bounds
TableLists ==
    {s \in SeqsUpTo({MakeTable(c, OneRow) : c \in ColumnLists}, MaxTables) : s # <<>>}
    \cup {ScenarioC, NameBeforeCompany}

ResolveOutcomes == {GoodPage(tabs) : tabs \in TableLists}

InitResolve == InitWith({"mail"}, {EnvUnset}, {EnvUnset}, {EnvUnset})

NextResolve ==
    \/ Attempt(ResolveOutcomes)
    \/ Resolve

SpecResolve == InitResolve /\ [][NextResolve]_vars

\* the cleaning, over every raw table of the usual shape within the bounds
RawRowLists ==
    UNION {[1..n -> PriceCells \X DelyCells] : n \in 0..MaxRows}

RowsOf(cells) == [i \in 1..Len(cells) |-> PageRow(i, cells[i][1], cells[i][2])]

NormalizeOutcomes ==
    {GoodPage(<<MakeTable(StdCols, RowsOf(cells))>>) : cells \in RawRowLists}

InitNormalize == InitWith(Variants, {EnvUnset}, {EnvUnset}, {EnvUnset})

NextNormalize ==
    \/ Attempt(NormalizeOutcomes)
    \/ Resolve
    \/ Normalize
    \/ Select

SpecNormalize == InitNormalize /\ [][NextNormalize]_vars

\* the selection, over every numeric frame within the bounds, one longer
\* frame, and the settings of the cap and the threshold
SelectCells == {C_70, C_85, C_86, C_95}

LongFrame == <<C_95, C_86, C_95, C_86, C_85, C_85, C_86>>

SelectRowLists ==
    UNION {[1..n -> {C_100} \X SelectCells] : n \in 0..MaxSelRows}
    \cup {[i \in 1..Len(LongFrame) |-> <<C_100, LongFrame[i]>>]}

SelectOutcomes ==
    {GoodPage(<<MakeTable(StdCols, RowsOf(cells))>>) : cells \in SelectRowLists}

CapSettings == {EnvUnset, EnvSet(0 - 1), EnvSet(0), EnvSet(1), EnvSet(2)}
ThresholdSettings == {EnvUnset, EnvSet(86)}

InitSelect == InitWith(Variants, CapSettings, ThresholdSettings, {EnvUnset})

NextSelect ==
    \/ Attempt(SelectOutcomes)
    \/ Resolve
    \/ Normalize
    \/ Select
    \/ Reselect

SpecSelect == InitSelect /\ [][NextSelect]_vars

\* the scorer of Delivery_new.py, over every frame of priced rows within
\* the bounds
C_3000000 == <<"3",",","0","0","0",",","0","0","0">>
ScoreCells == {C_100, C_1200, C_0, C_neg3, C_na, C_3000000} \X {C_86, C_95, C_100}

ScoreRowLists == UNION {[1..n -> ScoreCells] : n \in 0..MaxRows}

ScoreOutcomes ==
    {GoodPage(<<MakeTable(StdCols, RowsOf(cells))>>) : cells \in ScoreRowLists}

InitScore == InitWith({"new"}, {EnvUnset}, {EnvUnset}, {EnvUnset})

NextScore ==
    \/ Attempt(ScoreOutcomes)
    \/ Resolve
    \/ Normalize
    \/ Select
    \/ AnalyzeRow
    \/ Report

SpecScore == InitScore /\ [][NextScore]_vars

-----------------------------------------------------------------------------
(* The claims.                                                             *)

Last(s) == s[Len(s)]
Fetched == Len(log) > 0 /\ Last(log).success
Reported == report # ""
AfterResolve ==
    pc \in {"normalize", "select", "selected", "reselected", "done"} \/ (pc = "fatal" /\ Fetched)
AfterNormalize == pc \in {"select", "selected", "reselected", "done"} \/ Reported
AfterSelect == pc \in {"selected", "reselected", "done"} \/ Reported

\* the working table is table t of the document, its names stripped or not
IsTable(b, t) == b.rows = t.rows /\ b.cols \in {t.cols, stripped(t.cols)}

\* C1: the fetcher makes at most 3 attempts, never one after a successful
\* attempt, and works on the document of that attempt; when every attempt
\* failed the run has ended in the fetch error with no document, no table
\* and no frame.
FetchBounded ==
    /\ Len(log) <= 3
    /\ \A i \in 1..Len(log) : log[i].success => i = Len(log)
    /\ Fetched =>
        /\ pc # "fetch"
        /\ tables = Last(log).body.tables
        /\ \E i \in 1..Len(tables) : IsTable(base, tables[i])
    /\ ~Fetched =>
        /\ tables = <<>> /\ base = NoTable /\ df = <<>> /\ picks = <<>>
        /\ pc \in {"fetch", "fatal"}
        /\ pc = "fatal" => err = "RuntimeError" /\ (variant = "mail" => Len(log) = 3)
        /\ Len(log) = 3 => pc = "fatal"

\* two failed attempts, then a successful one
FetchRetriedThenSucceeded ==
    /\ variant = "mail"
    /\ Len(log) = 3
    /\ log[1].kind = "timeout" /\ log[2].kind = "ok" /\ ~log[2].success
    /\ log[3].success
    /\ pc = "resolve"

\* the page is blocked or too short, as the design has it
ClaimBlocked(body) ==
    \/ Len(body.text) + body.pad < MIN_PAGE_LEN
    \/ contains(K_access_denied, lower(body.text))
    \/ contains(K_captcha, lower(body.text))

\* C2: a 2xx response that is too short or carries a blocking marker is a
\* failed attempt, and its body is never handed to the table parser.
BlockedPageNeverParsed ==
    \A i \in 1..Len(log) :
        (log[i].kind = "ok" /\ ClaimBlocked(log[i].body)) =>
            ~log[i].parsed /\ ~log[i].success

\* a company column and a delivery column, in the words of the design
ClaimCompanyName(c) ==
    contains(K_company, lower(strip(c))) /\ contains(K_name, lower(strip(c)))
ClaimDeliveryName(c) ==
    contains(K_dely, lower(strip(c))) \/ contains(K_delivery, lower(strip(c)))
ClaimFullMatch(t) ==
    /\ \E i \in 1..Len(t.cols) : ClaimCompanyName(t.cols[i])
    /\ \E i \in 1..Len(t.cols) : ClaimDeliveryName(t.cols[i])
ClaimHasDelivery(t) == \E i \in 1..Len(t.cols) : ClaimDeliveryName(t.cols[i])

\* C3: the resolver returns the first table, in document order, that has
\* both a company column and a delivery column.
PicksFirstFullMatch ==
    (variant = "mail" /\ Fetched) =>
        \A i \in 1..Len(tables) :
            (ClaimFullMatch(tables[i]) /\ \A j \in 1..(i - 1) : ~ClaimFullMatch(tables[j]))
                => base = [tables[i] EXCEPT !.cols = stripped(tables[i].cols)]

\* a table with only a delivery column comes before the full match, which
\* is the one taken
PartialBeforeFullMatch ==
    /\ variant = "mail" /\ pc = "resolve"
    /\ Len(tables) = 2
    /\ ClaimHasDelivery(tables[1]) /\ ~ClaimFullMatch(tables[1])
    /\ ClaimFullMatch(tables[2])
    /\ tables[1].cols # tables[2].cols
    /\ base.cols = stripped(tables[2].cols)

NoFullMatch == \A i \in 1..Len(tables) : ~ClaimFullMatch(tables[i])

\* the first of the widest tables is table i
FirstWidest(i) ==
    /\ \A j \in 1..Len(tables) : Len(tables[j].cols) <= Len(tables[i].cols)
    /\ \A j \in 1..(i - 1) : Len(tables[j].cols) < Len(tables[i].cols)

CleanRowsInRange ==
    (variant = "mail" /\ AfterNormalize) =>
        \A i \in 1..Len(df) :
            /\ df[i].dely.t = "num" /\ 0 <= df[i].dely.n /\ df[i].dely.n <= 100
            /\ df[i].price.t = "num" /\ 0 <= df[i].price.n


\* a cell text that is a number once the decoration (the commas of a price,
\* the "%" of a percentage) and the blanks around it are taken away
ClaimIsNumber(cell, decoration) ==
    LET s == strip(remove_char(cell, decoration))
        digits == IF s # <<>> /\ s[1] = "-" THEN Tail(s) ELSE s
    IN  digits # <<>> /\ \A i \in 1..Len(digits) : digits[i] \in {Digits[k] : k \in 1..10}

\* the text of the working table under column c, row i
CellAt(i, c) == base.rows[i][col_index(base.cols, c)]
PriceParses(i) == ClaimIsNumber(CellAt(i, price_col), ",")
DelyParses(i) == ClaimIsNumber(CellAt(i, dely_col), "%")

RECURSIVE Ascending(_)
\* the numbers of S in ascending order
Ascending(S) ==
    IF S = {} THEN <<>>
    ELSE LET m == CHOOSE x \in S : \A y \in S : y <= x
         IN  Append(Ascending(S \ {m}), m)

RowNumbers == 1..Len(base.rows)

NamesOf(rows) == [i \in 1..Len(rows) |-> rows[i].name]
NamesAt(idx) == [k \in 1..Len(idx) |-> CellAt(idx[k], name_col)]

Qualifying == {i \in 1..Len(df) : df[i].dely.t = "num" /\ df[i].dely.n >= DELIVERY_THRESHOLD}
Picked(i) == \E k \in 1..Len(picks) : picks[k] = df[i]
Uncapped == variant # "mail" \/ MAX_STOCKS >= Cardinality(Qualifying)

\* C7: in every script the selected rows have delivery_pct >= threshold,
\* and, where the cap does not bind, every such row is selected, the rows
\* at the threshold included.
ThresholdInclusive ==
    AfterSelect =>
        /\ \A k \in 1..Len(picks) : \E i \in Qualifying : picks[k] = df[i]
        /\ Uncapped => \A i \in Qualifying : Picked(i)

PositionIn(rows, r) == CHOOSE i \in 1..Len(rows) : rows[i] = r

\* C8: the selection of Delivery_good_mail.py is descending in
\* delivery_pct, and rows of equal delivery_pct keep their input order.
DescendingAndStable ==
    (variant = "mail" /\ AfterSelect) =>
        \A i, j \in 1..Len(picks) :
            i < j =>
                /\ picks[i].dely.n >= picks[j].dely.n
                /\ picks[i].dely.n = picks[j].dely.n =>
                      PositionIn(df, picks[i]) < PositionIn(df, picks[j])

\* C9, as claimed: at most max_count rows for max_count > 0, and every
\* qualifying row when max_count is 0 or unset.
ZeroOrUnsetMeansNoCap ==
    (variant = "mail" /\ AfterSelect) =>
        /\ MAX_STOCKS > 0 => Len(picks) <= MAX_STOCKS
        /\ (MAX_STOCKS = 0 \/ ~env.MAX_STOCKS.set) => Len(picks) = Cardinality(Qualifying)

Smaller(a, b) == IF a < b THEN a ELSE b

\* C9, amended: for every max_count >= 0 the selection is the top
\* max_count of the qualifying rows, all of them when fewer qualify; a cap
\* of 0 selects nothing, and an unset cap is the default of 6.
CapIsHead ==
    (variant = "mail" /\ AfterSelect) =>
        /\ ~env.MAX_STOCKS.set => MAX_STOCKS = 6
        /\ MAX_STOCKS >= 0 =>
            /\ Len(picks) = Smaller(MAX_STOCKS, Cardinality(Qualifying))
            /\ \A k \in 1..Len(picks) : \E i \in Qualifying : picks[k] = df[i]
            /\ \A i \in Qualifying :
                  ~Picked(i) => \A k \in 1..Len(picks) : picks[k].dely.n >= df[i].dely.n

\* a cap of 0 with two qualifying rows: nothing is selected
CapZeroSelectsNothing ==
    /\ variant = "mail" /\ pc = "selected"
    /\ env.MAX_STOCKS.set /\ MAX_STOCKS = 0
    /\ Cardinality(Qualifying) = 2
    /\ picks = <<>>

\* C10: select applied to its own output, with the same threshold and cap,
\* returns the same sequence.
SelectIdempotent == pc = "reselected" => again = picks

\* the price of the row of an analysis entry, as a number
ClaimPrice(e) == current_price(e.row.price)
ScoredRows == {i \in 1..Len(results) : results[i].kind = "scored"}
PositivePrice(e) == ClaimPrice(e).t = "num" /\ ClaimPrice(e).n > 0

\* C11: for every row of Delivery_new.py with price > 0 and delivery_pct in
\* [0,100] the reported percentages satisfy 0 < stop_loss_pct <= upside_pct.
StopLossWithinUpside ==
    variant = "new" =>
        \A i \in 1..Len(results) :
            (PositivePrice(results[i]) /\ results[i].row.dely.n \in 0..100) =>
                /\ results[i].kind = "scored"
                /\ 0 < results[i].sl_pct
                /\ results[i].sl_pct <= results[i].upside_pct

\* C12: for every row of Delivery_new.py with price <= 0 the scorer
\* returns its sentinel: no percentage is computed, none is negative.
NonPositivePriceIsSentinel ==
    variant = "new" =>
        \A i \in 1..Len(results) :
            (ClaimPrice(results[i]).t = "num" /\ ClaimPrice(results[i]).n <= 0) =>
                /\ results[i] = NoNumbers(results[i].row, "error")
                /\ results[i].upside_pct >= 0 /\ results[i].sl_pct >= 0

\* C13: for every row of Delivery_new.py with price > 0 the row is scored
\* and its probability_pct lies in [20, 95].
ProbabilityClamped ==
    variant = "new" =>
        \A i \in 1..Len(results) :
            PositivePrice(results[i]) =>
                /\ results[i].kind = "scored"
                /\ 20000 <= results[i].prob /\ results[i].prob <= 95000

\* a row of price 100 and delivery 95 is scored at 94 per cent, and a row
\* of price 3,000,000 is scored too
HighProbabilityScored ==
    /\ variant = "new" /\ pc = "done"
    /\ Len(results) = 2
    /\ ClaimPrice(results[1]).n = 100 /\ results[1].row.dely.n = 95
    /\ results[1].kind = "scored" /\ results[1].prob = 94000
    /\ ClaimPrice(results[2]).n = 3000000 /\ results[2].kind = "scored"

\* C14: no fetch attempt follows an attempt that got a response: a
\* document with no tables or no resolvable schema ends the run at once.
NoRetryAfterResponse ==
    \A i \in 1..Len(log) :
        log[i].kind = "ok" => (i = Len(log) /\ pc # "fetch")

FatalErrors == {"RuntimeError", "ValueError", "IndexError", "KeyError"}

CompanyIsFullMatch ==
    (variant = "mail" /\ AfterResolve /\ pc # "fatal") =>
        ((\E i \in 1..Len(base.cols) : ClaimCompanyName(base.cols[i]))
            => ClaimCompanyName(name_col))

ClaimPriceName(c) ==
    \E k \in {K_last_price, K_ltp, K_price, K_close} : contains(k, lower(strip(c)))
NoPriceColumn == \A i \in 1..Len(base.cols) : ~ClaimPriceName(base.cols[i])

\* C17: when no column name of the chosen table contains "last price",
\* "ltp", "price" or "close", no column is taken as the price, the
\* resolution does not fail for it, and every row whose delivery_pct
\* parses is kept.
PriceMissingProceeds ==
    (variant = "mail" /\ AfterResolve /\ NoPriceColumn /\ ClaimHasDelivery(base)) =>
        /\ err \notin {"IndexError", "ValueError"}
        /\ price_col = None
        /\ AfterNormalize =>
              NamesOf(df) = NamesAt(Ascending({i \in RowNumbers : DelyParses(i)}))

\* C18: the analysis list has one entry per row the loop has passed, entry
\* i for selected row i, so that after the loop there is exactly one entry
\* per selected row, in the order of the selection, placeholders included.
OneResultPerPick ==
    variant # "legacy" =>
        /\ Len(results) = analyzed
        /\ analyzed <= Len(picks)
        /\ \A i \in 1..Len(results) : results[i].row = picks[i]
        /\ Reported => analyzed = Len(picks)

\* three selected rows, the analysis of the second failed: its placeholder
\* stands between the two scored entries
PlaceholderInPlace ==
    /\ variant = "new" /\ pc = "done"
    /\ Len(picks) = 3 /\ Len(results) = 3
    /\ results[1].kind = "scored"
    /\ results[2].kind = "placeholder" /\ results[2].row = picks[2]
    /\ results[3].kind = "scored"

\* C19: with DRY_RUN true Delivery_good_mail.py never sends the e-mail.
DryRunNeverSends == (variant = "mail" /\ DRY_RUN) => ~sent

\* a dry run has reported an empty selection
DryRunEmptyReportPrinted ==
    /\ variant = "mail" /\ DRY_RUN /\ env.DRY_RUN.set
    /\ pc = "done" /\ report = "empty"
    /\ ~sent

====
